---- MODULE Spec2Model ----
(***************************************************************************)
(* A model of the two command-line scripts of autonomous-review-loop:      *)
(*   scripts/python/review_wait.py      the CI Wait Poller                 *)
(*   scripts/python/review_comments.py  the Review Aggregator              *)
(* Python strings that the code converts (lower(), split(), int(),         *)
(* re.sub(), strip()) are sequences of one-character strings, and the      *)
(* conversions are computed character by character.                        *)
(***************************************************************************)
EXTENDS Integers, Sequences, FiniteSets, TLC

VARIABLES
    \* review_wait.py: parse_args
    argv,        \* sys.argv[1:]
    idx,         \* position of the for loop of parse_args in argv
    timeout,     \* parse_args: timeout
    warnings,    \* number of "Invalid timeout value" lines on stderr
    apc,         \* position in parse_args when it runs on its own
    \* review_wait.py: main
    wpc,         \* position in main
    now,         \* time.time(), in seconds
    start_time,  \* main: start_time
    fetched,     \* what the last `gh pr checks` answered
    check,       \* main: initial_check / check (None or the matched dict)
    fetches,     \* number of calls of get_coderabbit_check so far
    outcome,     \* how the run ended
    exitCode,    \* the process's exit code
    allRunning,  \* history: every fetch so far matched a running check
    slept,       \* history: the sleep since the last fetch
    gap,         \* history: the sleep between the last two fetches
    failedAt,    \* history: value of fetches when a fetch failed, else 0
    \* review_comments.py: main
    gpc,         \* position in main
    dirExists,   \* whether .reviews exists
    file,        \* .reviews/prComments.md
    before,      \* history: file when the run started
    writes,      \* history: number of write_text calls of this run
    run,         \* history: number of the run
    upstream,    \* what the external CLI answers: PR number, user, document
    repo_info, pr_number, current_user, result,   \* main's locals
    gOutcome, gExit,
    firstFile    \* history: file after the first successful run

avars == <<argv, idx, timeout, warnings, apc>>
wvars == <<wpc, now, start_time, fetched, check, fetches, outcome, exitCode,
           allRunning, slept, gap, failedAt>>
gvars == <<gpc, dirExists, file, before, writes, run, upstream, repo_info,
           pr_number, current_user, result, gOutcome, gExit, firstFile>>
vars == <<avars, wvars, gvars>>

\* ------------------------------------------------------------------ bounds

MaxArgs == 2        \* longest argument list
MaxLatency == 1     \* longest time an external call takes, in seconds
MaxSlack == 1       \* longest overshoot of a time.sleep, in seconds
Clock0 == 100       \* time.time() when the process starts
FetchCap == 50      \* where the count of fetches stops counting
MaxItems == 2       \* most reviews and threads together in a fetched document
MaxRuns == 2        \* consecutive runs of the aggregator on one upstream state

\* ----------------------------------------------------------------- strings

UpperChars == <<"A","B","C","D","E","F","G","H","I","J","K","L","M",
                "N","O","P","Q","R","S","T","U","V","W","X","Y","Z">>
LowerChars == <<"a","b","c","d","e","f","g","h","i","j","k","l","m",
                "n","o","p","q","r","s","t","u","v","w","x","y","z">>

LowerChar(c) ==
    IF \E i \in 1..26 : UpperChars[i] = c
    THEN LowerChars[CHOOSE i \in 1..26 : UpperChars[i] = c]
    ELSE c

\* str.lower()
Lower(s) == [i \in 1..Len(s) |-> LowerChar(s[i])]

\* whether t occurs in s at position i
OccursAt(t, s, i) ==
    /\ i + Len(t) - 1 <= Len(s)
    /\ \A k \in 1..Len(t) : s[i + k - 1] = t[k]

\* t in s
Contains(t, s) == \E i \in 1..(Len(s) + 1) : OccursAt(t, s, i)

\* s.startswith(t)
StartsWith(s, t) == OccursAt(t, s, 1)

IsSpace(c) == c \in {" ", "\t", "\n", "\r"}

RECURSIVE LStrip(_)
LStrip(s) == IF s /= <<>> /\ IsSpace(Head(s)) THEN LStrip(Tail(s)) ELSE s

RECURSIVE RStrip(_)
RStrip(s) ==
    IF s /= <<>> /\ IsSpace(s[Len(s)])
    THEN RStrip(SubSeq(s, 1, Len(s) - 1))
    ELSE s

\* str.strip()
Strip(s) == RStrip(LStrip(s))

\* s.split("=")
RECURSIVE SplitEq(_)
SplitEq(s) ==
    IF \E i \in 1..Len(s) : s[i] = "="
    THEN LET i == CHOOSE j \in 1..Len(s) :
                      /\ s[j] = "="
                      /\ \A k \in 1..(j - 1) : s[k] /= "="
         IN <<SubSeq(s, 1, i - 1)>> \o SplitEq(SubSeq(s, i + 1, Len(s)))
    ELSE <<s>>

Digits == <<"0","1","2","3","4","5","6","7","8","9">>
IsDigit(c) == \E i \in 1..10 : Digits[i] = c
DigitVal(c) == (CHOOSE i \in 1..10 : Digits[i] = c) - 1

RECURSIVE DecVal(_)
DecVal(s) == IF s = <<>> THEN 0
             ELSE 10 * DecVal(SubSeq(s, 1, Len(s) - 1)) + DigitVal(s[Len(s)])

\* int(s): [ok |-> FALSE] stands for ValueError
IntOf(s) ==
    LET t == Strip(s)
        signed == t /= <<>> /\ Head(t) \in {"+", "-"}
        body == IF signed THEN Tail(t) ELSE t
    IN IF body /= <<>> /\ \A i \in 1..Len(body) : IsDigit(body[i])
       THEN [ok |-> TRUE,
             val |-> IF signed /\ Head(t) = "-" THEN 0 - DecVal(body)
                     ELSE DecVal(body)]
       ELSE [ok |-> FALSE, val |-> 0]

\* ------------------------------------------------- review_wait.py constants

INITIAL_DELAY == 10
POLL_INTERVAL == 15
DEFAULT_TIMEOUT == 600
RUNNING_STATES == { <<"p","e","n","d","i","n","g">>,
                    <<"i","n","_","p","r","o","g","r","e","s","s">>,
                    <<"q","u","e","u","e","d">>,
                    <<"w","a","i","t","i","n","g">>,
                    <<"r","e","q","u","e","s","t","e","d">> }

\* ---------------------------------------------------------------- parse_args

TimeoutFlag == <<"-","-","t","i","m","e","o","u","t","=">>

\* the command-line arguments the model draws from
ArgSamples ==
    { TimeoutFlag \o <<"3","0">>,
      TimeoutFlag \o <<"a","b","c">>,
      TimeoutFlag \o <<"0">>,
      TimeoutFlag \o <<"-","5">>,
      TimeoutFlag,
      TimeoutFlag \o <<"7","=","9">>,
      TimeoutFlag \o <<"+","2","5">>,
      TimeoutFlag \o <<" ","5"," ">>,
      <<"-","-","v","e","r","b","o","s","e">> }

RECURSIVE SeqsUpTo(_, _)
SeqsUpTo(S, n) ==
    IF n = 0 THEN { <<>> }
    ELSE LET shorter == SeqsUpTo(S, n - 1)
         IN shorter \cup { Append(s, x) : s \in shorter, x \in S }

\* one iteration of the for loop of parse_args, on the pair (timeout, warnings)
ParseArg(acc, arg) ==
    IF StartsWith(arg, TimeoutFlag)
    THEN LET parsed == IntOf(SplitEq(arg)[2])
         IN IF parsed.ok
            THEN IF parsed.val > 0
                 THEN [acc EXCEPT !.timeout = parsed.val]
                 ELSE [acc EXCEPT !.warnings = @ + 1]
            ELSE [acc EXCEPT !.warnings = @ + 1]
    ELSE acc

\* parse_args() as main calls it: the loop run to its end
RECURSIVE ParseFrom(_, _)
ParseFrom(acc, args) ==
    IF args = <<>> THEN acc ELSE ParseFrom(ParseArg(acc, Head(args)), Tail(args))

parse_args(args) == ParseFrom([timeout |-> DEFAULT_TIMEOUT, warnings |-> 0], args)

\* ------------------------------------------------------ parse_args, stepwise

ArgsInit ==
    /\ argv \in SeqsUpTo(ArgSamples, MaxArgs)
    /\ idx = 1
    /\ timeout = DEFAULT_TIMEOUT
    /\ warnings = 0
    /\ apc = "loop"

\* one iteration of `for arg in sys.argv[1:]`
ParseOneArg ==
    /\ apc = "loop"
    /\ idx <= Len(argv)
    /\ LET acc == ParseArg([timeout |-> timeout, warnings |-> warnings], argv[idx])
       IN /\ timeout' = acc.timeout
          /\ warnings' = acc.warnings
    /\ idx' = idx + 1
    /\ UNCHANGED <<argv, apc>>

\* return {"timeout": timeout}
ParseReturn ==
    /\ apc = "loop"
    /\ idx > Len(argv)
    /\ apc' = "done"
    /\ UNCHANGED <<argv, idx, timeout, warnings>>

\* --------------------------------------------------- get_coderabbit_check

BotId == <<"c","o","d","e","r","a","b","b","i","t">>

\* get_coderabbit_check returning None
NoCheck == [k \in {} |-> <<>>]

\* dict.get(k, default)
Get(d, k, default) == IF k \in DOMAIN d THEN d[k] ELSE default

CodeRabbitName == <<"C","o","d","e","R","a","b","b","i","t">>
SecondBotName == <<"c","i","/","c","o","d","e","r","a","b","b","i","t","a","i">>
BuildName == <<"b","u","i","l","d">>
Pending == <<"p","e","n","d","i","n","g">>
PENDING == <<"P","E","N","D","I","N","G">>
IN_PROGRESS == <<"I","N","_","P","R","O","G","R","E","S","S">>
SUCCESS == <<"S","U","C","C","E","S","S">>
Failure == <<"f","a","i","l","u","r","e">>

StateSamples == RUNNING_STATES \cup { PENDING, IN_PROGRESS, SUCCESS, Failure, <<>> }

BotCheck(s) == [name |-> CodeRabbitName, state |-> s]

\* what `gh pr checks --json name,state` answers, as subprocess.run returns it:
\* a decoded list of checks, a non-zero exit, text that is no JSON, or JSON
\* that is no list of objects
CheckLists ==
    { <<BotCheck(s)>> : s \in StateSamples }
    \cup { <<>>,
           <<[name |-> BuildName, state |-> Pending]>>,
           <<[name |-> BuildName, state |-> Pending], BotCheck(PENDING)>>,
           <<BotCheck(SUCCESS), [name |-> SecondBotName, state |-> Pending]>>,
           <<[name |-> CodeRabbitName]>>,
           <<[state |-> Pending]>> }

FetchSamples ==
    { [kind |-> "ok", checks |-> l] : l \in CheckLists }
    \cup { [kind |-> "nonzero"], [kind |-> "malformed"], [kind |-> "badshape"] }

\* a variant of FirstMatch that keeps the last matching check
LastMatch(checks) ==
    LET hits == { i \in 1..Len(checks) :
                    Contains(BotId, Lower(Get(checks[i], "name", <<>>))) }
    IN IF hits = {} THEN NoCheck
       ELSE checks[CHOOSE i \in hits : \A j \in hits : j <= i]

\* the loop over checks: the first whose lowered name contains the bot id
RECURSIVE FirstMatch(_)
FirstMatch(checks) ==
    IF checks = <<>> THEN NoCheck
    ELSE IF Contains(BotId, Lower(Get(Head(checks), "name", <<>>)))
         THEN Head(checks)
         ELSE FirstMatch(Tail(checks))

\* get_coderabbit_check on the answer r of the subprocess
get_coderabbit_check(r) ==
    IF r.kind = "ok"
    THEN [raised |-> FALSE, value |-> FirstMatch(r.checks)]
    ELSE [raised |-> TRUE, value |-> NoCheck]

\* the calls of get_coderabbit_check: the subprocess's answer r and what the
\* function makes of it
FetchOutcomes == { [r |-> r, got |-> get_coderabbit_check(r)] : r \in FetchSamples }

NoAnswer == [kind |-> "none"]

\* ------------------------------------------------------ review_wait.py: main

\* (check.get("state", "") if check else "").lower()
StateOf(c) == Lower(IF c /= NoCheck THEN Get(c, "state", <<>>) ELSE <<>>)

\* not initial_check or initial_state not in RUNNING_STATES
NothingToWait(c) == c = NoCheck \/ StateOf(c) \notin RUNNING_STATES

\* a variant of PollCompleted that forgets `not check`
PollCompletedFoundOnly(c) == c /= NoCheck /\ StateOf(c) \notin RUNNING_STATES

\* not check or state not in RUNNING_STATES
PollCompleted(c) == c = NoCheck \/ StateOf(c) \notin RUNNING_STATES

\* a variant of LoopCond that forgets start_time
LoopCondNoStart(t, start, limit) == t < limit

\* while time.time() - start_time < timeout
LoopCond(t, start, limit) == t - start < limit

\* a variant of AfterRunningPoll that skips the sleep
AfterRunningPollNoSleep == "loop"

\* where main goes after a poll that found the check running
AfterRunningPoll == "sleep"

\* a variant of Slept in which the clock stands still
SleptNoTime(t, seconds, over) == t

\* time.time() after time.sleep(seconds) that began at t
Slept(t, seconds, over) == t + seconds + over

\* the sys.exit codes
ExitNothing == 0
ExitCompleted == 0
ExitTimeout == 1
ExitError == 1

\* argument lists the poller is started with
ArgvSamples ==
    { <<TimeoutFlag \o <<"a","b","c">>>>,
      <<TimeoutFlag \o <<"3","0">>, TimeoutFlag \o <<"0">>>>,
      <<TimeoutFlag \o <<"+","2","5">>>>,
      <<TimeoutFlag \o <<" ","5"," ">>>> }

WaitInit ==
    /\ argv \in ArgvSamples
    /\ idx = 1
    /\ timeout = DEFAULT_TIMEOUT
    /\ warnings = 0
    /\ apc = "idle"
    /\ wpc = "start"
    /\ now = Clock0
    /\ start_time = 0
    /\ fetched = NoAnswer
    /\ check = NoCheck
    /\ fetches = 0
    /\ outcome = "running"
    /\ exitCode = -1
    /\ allRunning = TRUE
    /\ slept = "none"
    /\ gap = "none"
    /\ failedAt = 0

\* a variant of Fatal that prints the error and returns
FatalNoExit ==
    /\ outcome' = "error"
    /\ exitCode' = 0
    /\ wpc' = "done"

\* the except clause of __main__: print the error, sys.exit(1)
Fatal ==
    /\ outcome' = "error"
    /\ exitCode' = ExitError
    /\ wpc' = "done"

\* args = parse_args(); timeout = args["timeout"]; start_time = time.time()
Start ==
    /\ wpc = "start"
    /\ LET args == parse_args(argv)
       IN /\ timeout' = args.timeout
          /\ warnings' = args.warnings
    /\ start_time' = now
    /\ wpc' = "get_pr"
    /\ UNCHANGED <<argv, idx, apc, now, fetched, check, fetches, outcome,
                   exitCode, allRunning, slept, gap, failedAt>>

\* pr_number = get_pr_number(): gh fails, prints nothing, or prints the number
GetPrNumber ==
    /\ wpc = "get_pr"
    /\ \E d \in 0..MaxLatency, answer \in {"nonzero", "empty", "number"} :
         /\ now' = now + d
         /\ IF answer = "number"
            THEN /\ wpc' = "initial_sleep"
                 /\ UNCHANGED <<outcome, exitCode>>
            ELSE Fatal
    /\ UNCHANGED <<avars, start_time, fetched, check, fetches, allRunning,
                   slept, gap, failedAt>>

\* time.sleep(INITIAL_DELAY)
InitialSleep ==
    /\ wpc = "initial_sleep"
    /\ \E over \in 0..MaxSlack : now' = Slept(now, INITIAL_DELAY, over)
    /\ slept' = "initial"
    /\ wpc' = "initial_check"
    /\ UNCHANGED <<avars, start_time, fetched, check, fetches, outcome,
                   exitCode, allRunning, gap, failedAt>>

\* what every call of get_coderabbit_check does to the history
Fetched(r, got) ==
    /\ fetched' = r
    /\ fetches' = IF fetches < FetchCap THEN fetches + 1 ELSE fetches
    /\ gap' = slept
    /\ slept' = "none"
    /\ failedAt' = IF got.raised THEN fetches + 1 ELSE failedAt
    /\ allRunning' = IF got.raised THEN allRunning
                     ELSE /\ allRunning
                          /\ got.value /= NoCheck
                          /\ Lower(Get(got.value, "state", <<>>)) \in RUNNING_STATES

\* initial_check = get_coderabbit_check(pr_number) and the test after it
InitialCheck ==
    /\ wpc = "initial_check"
    /\ \E d \in 0..MaxLatency, call \in FetchOutcomes :
         LET got == call.got
         IN /\ now' = now + d
            /\ Fetched(call.r, got)
            /\ IF got.raised
               THEN Fatal /\ UNCHANGED check
               ELSE /\ check' = got.value
                    /\ IF NothingToWait(got.value)
                       THEN /\ outcome' = "nothing"
                            /\ exitCode' = ExitNothing
                            /\ wpc' = "done"
                       ELSE /\ wpc' = "loop"
                            /\ UNCHANGED <<outcome, exitCode>>
    /\ UNCHANGED <<avars, start_time>>

\* the while condition, and the timeout exit after the loop
LoopTest ==
    /\ wpc = "loop"
    /\ IF LoopCond(now, start_time, timeout)
       THEN /\ wpc' = "poll"
            /\ UNCHANGED <<outcome, exitCode>>
       ELSE /\ outcome' = "timed_out"
            /\ exitCode' = ExitTimeout
            /\ wpc' = "done"
    /\ UNCHANGED <<avars, now, start_time, fetched, check, fetches,
                   allRunning, slept, gap, failedAt>>

\* check = get_coderabbit_check(pr_number) and the test after it;
\* check['state'] raises KeyError when the matched check has no state
Poll ==
    /\ wpc = "poll"
    /\ \E d \in 0..MaxLatency, call \in FetchOutcomes :
         LET got == call.got
         IN /\ now' = now + d
            /\ Fetched(call.r, got)
            /\ IF got.raised
               THEN Fatal /\ UNCHANGED check
               ELSE /\ check' = got.value
                    /\ IF PollCompleted(got.value)
                       THEN IF got.value /= NoCheck /\ "state" \notin DOMAIN got.value
                            THEN Fatal
                            ELSE /\ outcome' = "completed"
                                 /\ exitCode' = ExitCompleted
                                 /\ wpc' = "done"
                       ELSE /\ wpc' = AfterRunningPoll
                            /\ UNCHANGED <<outcome, exitCode>>
    /\ UNCHANGED <<avars, start_time>>

\* time.sleep(POLL_INTERVAL)
PollSleep ==
    /\ wpc = "sleep"
    /\ \E over \in 0..MaxSlack : now' = Slept(now, POLL_INTERVAL, over)
    /\ slept' = "poll"
    /\ wpc' = "loop"
    /\ UNCHANGED <<avars, start_time, fetched, check, fetches, outcome,
                   exitCode, allRunning, gap, failedAt>>

\* ------------------------------------------- review_comments.py: functions

\* str(n) for n >= 0, as an f-string formats an int
RECURSIVE Str(_)
Str(n) == IF n < 10 THEN <<Digits[n + 1]>>
          ELSE Str(n \div 10) \o <<Digits[(n % 10) + 1]>>

CommentOpen == <<"<","!","-","-">>
CommentClose == <<"-","-",">">>

\* re.sub(r"<!--[\s\S]*?-->", "", body): left to right, each <!-- up to the
\* nearest --> that starts after it
RECURSIVE RemoveComments(_)
RemoveComments(s) ==
    IF s = <<>> THEN <<>>
    ELSE IF /\ OccursAt(CommentOpen, s, 1)
            /\ \E j \in 5..Len(s) : OccursAt(CommentClose, s, j)
         THEN LET j == CHOOSE k \in 5..Len(s) :
                           /\ OccursAt(CommentClose, s, k)
                           /\ \A m \in 5..(k - 1) : ~OccursAt(CommentClose, s, m)
              IN RemoveComments(SubSeq(s, j + 3, Len(s)))
         ELSE <<Head(s)>> \o RemoveComments(Tail(s))

strip_html_comments(body) == Strip(RemoveComments(body))

\* JSON null, an empty dict, Python's None as dict.get returns it
Null == [null |-> TRUE]
EmptyDict == [k \in {} |-> <<>>]
PyNone == <<"None">>

ThumbsUp == "THUMBS_UP"

\* a variant of has_user_reacted that takes anyone's thumbs up
has_anyone_reacted(review, username) ==
    LET nodes == Get(Get(review, "reactions", EmptyDict), "nodes", <<>>)
    IN \E i \in 1..Len(nodes) : Get(nodes[i], "content", PyNone) = ThumbsUp

\* has_user_reacted(review, username)
has_user_reacted(review, username) ==
    LET nodes == Get(Get(review, "reactions", EmptyDict), "nodes", <<>>)
    IN \E i \in 1..Len(nodes) :
          /\ Get(Get(nodes[i], "user", EmptyDict), "login", PyNone) = username
          /\ Get(nodes[i], "content", PyNone) = ThumbsUp

\* get_pr_number on the stdout of gh: [ok |-> FALSE] stands for RuntimeError
get_pr_number(stdout) ==
    LET text == Strip(stdout)
    IN IF text = <<>> THEN [ok |-> FALSE, val |-> 0]
       ELSE IntOf(text)

BotLogin == <<"c","o","d","e","r","a","b","b","i","t","a","i">>

\* r.get("author", {}).get("login") raises when author is null
AuthorRaises(r) == Get(r, "author", EmptyDict) = Null

\* the list comprehension of coderabbit_reviews
coderabbit_reviews(nodes) ==
    SelectSeq(nodes, LAMBDA r :
        /\ Get(Get(r, "author", EmptyDict), "login", PyNone) = BotLogin
        /\ Get(r, "body", <<>>) /= <<>>)

unreacted_reviews(reviews, user) ==
    SelectSeq(reviews, LAMBDA r : ~has_user_reacted(r, user))

unresolved_threads(nodes) ==
    SelectSeq(nodes, LAMBDA t : ~t.isResolved /\ t.comments.nodes /= <<>>)

review_bodies(reviews) ==
    LET kept == SelectSeq(reviews, LAMBDA r : strip_html_comments(r.body) /= <<>>)
    IN [i \in 1..Len(kept) |->
           [id |-> kept[i].id, body |-> strip_html_comments(kept[i].body)]]

\* comment['path'] or comment['body'] raises KeyError
ThreadRaises(t) ==
    LET comment == t.comments.nodes[1]
    IN "path" \notin DOMAIN comment \/ "body" \notin DOMAIN comment

\* one element of thread_parts
ThreadPart(t) ==
    LET comment == t.comments.nodes[1]
    IN [location |-> <<comment.path,
                       IF "line" \in DOMAIN comment THEN Str(comment.line)
                       ELSE <<"?">> >>,
        id |-> t.id,
        author |-> Get(Get(comment, "author", EmptyDict), "login",
                       <<"u","n","k","n","o","w","n">>),
        body |-> comment.body]

\* the text main builds, as the values it interpolates: [raised |-> TRUE]
\* when building it raises
Render(pr, threads, bodies) ==
    IF threads = <<>> /\ bodies = <<>>
    THEN [raised |-> FALSE,
          content |-> [kind |-> "none", pr |-> Str(pr)]]
    ELSE IF \E i \in 1..Len(threads) : ThreadRaises(threads[i])
         THEN [raised |-> TRUE]
         ELSE [raised |-> FALSE,
               content |-> [kind |-> "report",
                            pr |-> Str(pr),
                            threadCount |-> Len(threads),
                            reviewCount |-> Len(bodies),
                            threads |-> [i \in 1..Len(threads) |->
                                             ThreadPart(threads[i])],
                            reviews |-> bodies]]

RECURSIVE WriteAll(_, _)

\* a variant of write_text that opens the file for appending
write_text_append(f, content) == [exists |-> TRUE, text |-> Append(f.text, content)]

\* Path.write_text(content): the file holds the chunks written to it
write_text(f, content) == [exists |-> TRUE, text |-> <<content>>]

\* the file after the calls write_text(c) for the c of cs, in order
WriteAll(f, cs) ==
    IF cs = <<>> THEN f ELSE WriteAll(write_text(f, Head(cs)), Tail(cs))

\* a variant of Written that writes the header before the parts are built
WrittenHeaderFirst(out) ==
    IF out.raised THEN <<[kind |-> "header"]>> ELSE <<out.content>>

\* the contents main passes to write_text, in order: the one document it
\* built, or nothing when building it raised
Written(out) == IF out.raised THEN <<>> ELSE <<out.content>>

\* lines 116-189 of main on the fetched document: what is raised, whether
\* .reviews is made, and what is written
Pipeline(res, pr, user) ==
    IF "data" \notin DOMAIN res
    THEN [raised |-> TRUE, mkdir |-> FALSE, written |-> <<>>]
    ELSE LET pr_data == res.data.repository.pullRequest
         IN IF \E i \in 1..Len(pr_data.reviews.nodes) :
                   AuthorRaises(pr_data.reviews.nodes[i])
            THEN [raised |-> TRUE, mkdir |-> FALSE, written |-> <<>>]
            ELSE LET threads == unresolved_threads(pr_data.reviewThreads.nodes)
                     bodies == review_bodies(unreacted_reviews(
                                   coderabbit_reviews(pr_data.reviews.nodes), user))
                     out == Render(pr, threads, bodies)
                 IN [raised |-> out.raised, mkdir |-> TRUE,
                     written |-> Written(out)]

\* ------------------------------------------------ what the external CLI says

Me == <<"m","e">>
You == <<"y","o","u">>
Alice == <<"a","l","i","c","e">>

Review(id, login, body, reactions) ==
    [id |-> id, author |-> [login |-> login], body |-> body,
     reactions |-> [nodes |-> reactions]]

Reaction(login, content) == [user |-> [login |-> login], content |-> content]

ReviewSamples ==
    { \* "<!--c-->ok"
      Review("R1", BotLogin, <<"<","!","-","-","c","-","-",">","o","k">>, <<>>),
      \* " <!--x\n-->\n": nothing but markup and white space
      Review("R2", BotLogin, <<" ","<","!","-","-","x","\n","-","-",">","\n">>, <<>>),
      \* "fix", thumbs up by me
      Review("R3", BotLogin, <<"f","i","x">>, <<Reaction(Me, ThumbsUp)>>),
      \* "a<!--h-->b<!--u", thumbs up by you, a heart by me
      Review("R4", BotLogin,
             <<"a","<","!","-","-","h","-","-",">","b","<","!","-","-","u">>,
             <<Reaction(You, ThumbsUp), Reaction(Me, "HEART")>>),
      \* a person's review
      Review("R5", Alice, <<"h","i">>, <<>>),
      \* an empty body
      Review("R6", BotLogin, <<>>, <<>>),
      \* the author's account is deleted: "author": null
      [id |-> "R7", author |-> Null, body |-> <<"o","l","d">>,
       reactions |-> [nodes |-> <<>>]] }

Thread(id, resolved, comments) ==
    [id |-> id, isResolved |-> resolved, comments |-> [nodes |-> comments]]

APy == <<"a",".","p","y">>
FixThis == <<"f","i","x"," ","t","h","i","s">>

ThreadSamples ==
    { Thread("T1", FALSE, <<[author |-> [login |-> BotLogin], path |-> APy,
                             line |-> 10, body |-> FixThis]>>),
      Thread("T2", TRUE, <<[author |-> [login |-> BotLogin], path |-> APy,
                            line |-> 7, body |-> FixThis]>>),
      Thread("T3", FALSE, <<>>),
      \* no line, no author
      Thread("T4", FALSE, <<[path |-> APy, body |-> FixThis]>>),
      \* no path
      Thread("T5", FALSE, <<[author |-> [login |-> BotLogin], line |-> 3,
                             body |-> FixThis]>>) }

Document(reviews, threads) ==
    [data |-> [repository |-> [pullRequest |->
        [reviews |-> [nodes |-> reviews],
         reviewThreads |-> [nodes |-> threads]]]]]

\* the documents `gh api graphql` answers with exit code 0
Documents ==
    { Document(pair[1], pair[2]) :
        pair \in { p \in SeqsUpTo(ReviewSamples, MaxItems)
                           \X SeqsUpTo(ThreadSamples, MaxItems) :
                     Len(p[1]) + Len(p[2]) <= MaxItems } }
    \cup { [errors |-> "x"] }

\* the upstream state: what gh prints for the PR number and the user, and the
\* document of the PR
Upstreams ==
    [prText : { <<"7","\n">>, <<"0","1","2","\n">> },
     userText : { Me \o <<"\n">>, You \o <<"\n">> },
     doc : Documents]

NoFile == [exists |-> FALSE, text |-> <<>>]
StaleFile == [exists |-> TRUE, text |-> <<[kind |-> "none", pr |-> <<"3">>]>>]

\* ------------------------------------------------ review_comments.py: main

GExitOk == 0
GExitError == 1

AggInit ==
    /\ gpc = "start"
    /\ \E d \in BOOLEAN, f \in {NoFile, StaleFile} :
         /\ (f.exists => d)
         /\ dirExists = d
         /\ file = f
         /\ before = f
    /\ writes = 0
    /\ run = 1
    /\ upstream \in Upstreams
    /\ repo_info = EmptyDict
    /\ pr_number = 0
    /\ current_user = <<>>
    /\ result = EmptyDict
    /\ gOutcome = "running"
    /\ gExit = -1
    /\ firstFile = <<>>

\* the except clause of __main__
GFatal ==
    /\ gOutcome' = "error"
    /\ gExit' = GExitError
    /\ gpc' = "done"

\* repo_info = get_repo_info()
CallGetRepoInfo ==
    /\ gpc = "start"
    /\ \E answer \in {"nonzero", "malformed", "noowner", "ok"} :
         CASE answer = "ok" ->
                /\ repo_info' = [owner |-> [login |-> "o"], name |-> "r"]
                /\ gpc' = "get_pr"
                /\ UNCHANGED <<gOutcome, gExit>>
           [] answer = "noowner" ->
                /\ repo_info' = [name |-> "r"]
                /\ gpc' = "get_pr"
                /\ UNCHANGED <<gOutcome, gExit>>
           [] OTHER -> GFatal /\ UNCHANGED repo_info
    /\ UNCHANGED <<dirExists, file, before, writes, run, upstream, pr_number,
                   current_user, result, firstFile>>

\* pr_number = get_pr_number()
CallGetPrNumber ==
    /\ gpc = "get_pr"
    /\ \E answer \in {"nonzero", "empty", "garbage", "ok"} :
         LET stdout == CASE answer = "empty" -> <<"\n">>
                         [] answer = "garbage" -> <<"n","o"," ","p","r">>
                         [] OTHER -> upstream.prText
             parsed == get_pr_number(stdout)
         IN IF answer /= "nonzero" /\ parsed.ok
            THEN /\ pr_number' = parsed.val
                 /\ gpc' = "get_user"
                 /\ UNCHANGED <<gOutcome, gExit>>
            ELSE GFatal /\ UNCHANGED pr_number
    /\ UNCHANGED <<dirExists, file, before, writes, run, upstream, repo_info,
                   current_user, result, firstFile>>

\* current_user = get_current_user()
CallGetCurrentUser ==
    /\ gpc = "get_user"
    /\ \E answer \in {"nonzero", "ok"} :
         IF answer = "ok"
         THEN /\ current_user' = Strip(upstream.userText)
              /\ gpc' = "fetch"
              /\ UNCHANGED <<gOutcome, gExit>>
         ELSE GFatal /\ UNCHANGED current_user
    /\ UNCHANGED <<dirExists, file, before, writes, run, upstream, repo_info,
                   pr_number, result, firstFile>>

\* result = run_graphql(...): repo_info["owner"]["login"] raises KeyError
\* before the call; the call exits non-zero, prints no JSON, or a document
CallRunGraphql ==
    /\ gpc = "fetch"
    /\ \E answer \in {"nonzero", "malformed", "ok"} :
         IF "owner" \in DOMAIN repo_info /\ answer = "ok"
         THEN /\ result' = upstream.doc
              /\ gpc' = "report"
              /\ UNCHANGED <<gOutcome, gExit>>
         ELSE GFatal /\ UNCHANGED result
    /\ UNCHANGED <<dirExists, file, before, writes, run, upstream, repo_info,
                   pr_number, current_user, firstFile>>

\* the rest of main: filter, reviews_dir.mkdir(exist_ok=True), render, write
Report ==
    /\ gpc = "report"
    /\ LET p == Pipeline(result, pr_number, current_user)
       IN /\ dirExists' = (dirExists \/ p.mkdir)
          /\ file' = WriteAll(file, p.written)
          /\ writes' = writes + Len(p.written)
          /\ IF p.raised
             THEN GFatal /\ UNCHANGED firstFile
             ELSE /\ firstFile' = IF firstFile = <<>>
                                  THEN <<WriteAll(file, p.written)>>
                                  ELSE firstFile
                  /\ gOutcome' = "ok"
                  /\ gExit' = GExitOk
                  /\ gpc' = "done"
    /\ UNCHANGED <<before, run, upstream, repo_info, pr_number, current_user,
                   result>>

\* the next run of the script, on the same upstream state
RunAgain ==
    /\ gpc = "done"
    /\ run < MaxRuns
    /\ gpc' = "start"
    /\ run' = run + 1
    /\ before' = file
    /\ writes' = 0
    /\ repo_info' = EmptyDict
    /\ pr_number' = 0
    /\ current_user' = <<>>
    /\ result' = EmptyDict
    /\ gOutcome' = "running"
    /\ gExit' = -1
    /\ UNCHANGED <<dirExists, file, upstream, firstFile>>

\* ------------------------------------------------------------ specifications

ArgsIdle ==
    /\ argv = <<>>
    /\ idx = 1
    /\ timeout = DEFAULT_TIMEOUT
    /\ warnings = 0
    /\ apc = "idle"

WaitIdle ==
    /\ wpc = "idle"
    /\ now = Clock0
    /\ start_time = 0
    /\ fetched = NoAnswer
    /\ check = NoCheck
    /\ fetches = 0
    /\ outcome = "running"
    /\ exitCode = -1
    /\ allRunning = TRUE
    /\ slept = "none"
    /\ gap = "none"
    /\ failedAt = 0

AggIdle ==
    /\ gpc = "idle"
    /\ dirExists = FALSE
    /\ file = NoFile
    /\ before = NoFile
    /\ writes = 0
    /\ run = 1
    /\ upstream = EmptyDict
    /\ repo_info = EmptyDict
    /\ pr_number = 0
    /\ current_user = <<>>
    /\ result = EmptyDict
    /\ gOutcome = "running"
    /\ gExit = -1
    /\ firstFile = <<>>

\* review_wait.py
Init == WaitInit /\ AggIdle
Next ==
    /\ \/ Start
       \/ GetPrNumber
       \/ InitialSleep
       \/ InitialCheck
       \/ LoopTest
       \/ Poll
       \/ PollSleep
    /\ UNCHANGED gvars
Spec == Init /\ [][Next]_vars
\* every call returns and every sleep ends
LiveSpec == Spec /\ WF_vars(Next)

\* parse_args of review_wait.py, on every argument list
InitArgs == ArgsInit /\ WaitIdle /\ AggIdle
NextArgs == (ParseOneArg \/ ParseReturn) /\ UNCHANGED <<wvars, gvars>>
SpecArgs == InitArgs /\ [][NextArgs]_vars

\* review_comments.py
InitAgg == AggInit /\ ArgsIdle /\ WaitIdle
NextAgg ==
    /\ \/ CallGetRepoInfo
       \/ CallGetPrNumber
       \/ CallGetCurrentUser
       \/ CallRunGraphql
       \/ Report
       \/ RunAgain
    /\ UNCHANGED <<avars, wvars>>
SpecAgg == InitAgg /\ [][NextAgg]_vars

\* ------------------------------------------------------- review_wait.py claims

Elapsed == now - start_time

\* the first check of a list whose name contains the bot id, in any case
MatchingAt(l) == { i \in 1..Len(l) : Contains(BotId, Lower(Get(l[i], "name", <<>>))) }
FirstMatching(l) ==
    LET hits == MatchingAt(l)
    IN IF hits = {} THEN NoCheck
       ELSE l[CHOOSE i \in hits : \A j \in hits : i <= j]

\* the state of a check as gh printed it, and lower-cased
PrintedRunning(c) == c /= NoCheck /\ Get(c, "state", <<>>) \in RUNNING_STATES
LoweredRunning(c) == c /= NoCheck /\ Lower(Get(c, "state", <<>>)) \in RUNNING_STATES

\* a list whose matching check, if any, has a state
HasState(l) == LET m == FirstMatching(l) IN m = NoCheck \/ "state" \in DOMAIN m

\* C1 as stated: a run in which no call failed ends "timed out" if and only
\* if the elapsed time exceeds the timeout and every fetch of the run found
\* the matched check running.
C1_TimedOutIffExceeds ==
    (wpc = "done" /\ outcome /= "error")
        => (outcome = "timed_out" <=> (Elapsed > timeout /\ allRunning))

\* C1 as amended: a run in which no call failed ends "timed out" if and only
\* if the elapsed time has reached or exceeded the timeout (elapsed >= timeout)
\* and every fetch of the run found the matched check running.
C1_TimedOutIffReached ==
    (wpc = "done" /\ outcome /= "error")
        => (outcome = "timed_out" <=> (Elapsed >= timeout /\ allRunning))

\* a run that polled three times, found the check running each time and
\* timed out
C1_Witness ==
    /\ wpc = "done"
    /\ outcome = "timed_out"
    /\ fetches >= 3
    /\ allRunning

\* the state right after a fetch of the loop that returned a list whose
\* matching check, if any, has a state
JustPolled ==
    /\ fetches >= 2
    /\ slept = "none"
    /\ fetched.kind = "ok"
    /\ HasState(fetched.checks)

C3_NothingPrinted ==
    /\ (fetches = 1 /\ fetched.kind = "ok"
          /\ ~PrintedRunning(FirstMatching(fetched.checks)))
         => (wpc = "done" /\ outcome = "nothing" /\ exitCode = 0)
    /\ outcome = "nothing" => fetches = 1

\* C3 as amended: the same, with the state compared after lower-casing it.
C3_NothingLowered ==
    /\ (fetches = 1 /\ fetched.kind = "ok"
          /\ ~LoweredRunning(FirstMatching(fetched.checks)))
         => (wpc = "done" /\ outcome = "nothing" /\ exitCode = 0)
    /\ outcome = "nothing" => fetches = 1

\* the first matching check is finished, a later matching one is pending
C3_Witness ==
    /\ wpc = "done"
    /\ outcome = "nothing"
    /\ fetched.kind = "ok"
    /\ Len(fetched.checks) = 2
    /\ FirstMatching(fetched.checks) = BotCheck(SUCCESS)

\* C4: a finished run has exit code 0 exactly when it ended "completed" or
\* "nothing to wait for" and 1 exactly when it timed out or failed; a failed
\* fetch ends the run with exit code 1 and no fetch follows it.
C4_ExitCodes ==
    /\ wpc = "done" =>
         /\ exitCode = 0 <=> outcome \in {"completed", "nothing"}
         /\ exitCode = 1 <=> outcome \in {"timed_out", "error"}
    /\ failedAt /= 0 =>
         /\ wpc = "done"
         /\ outcome = "error"
         /\ exitCode = 1
         /\ fetches = failedAt

\* a fetch of the loop failed
C4_Witness ==
    /\ failedAt >= 2
    /\ wpc = "done"
    /\ fetched.kind = "malformed"

\* C9 as stated: every fetch after the first is preceded by a poll-interval
\* sleep since the fetch before it.
C9_SleepBeforeEveryRefetch == fetches >= 2 => gap = "poll"

\* C9 as amended: the loop fetches, then sleeps: its first fetch follows the
\* initial fetch with no sleep between them, and every later fetch is
\* preceded by a poll-interval sleep since the fetch before it.
C9_SleepBetweenPolls ==
    /\ fetches = 1 => gap = "initial"
    /\ fetches = 2 => gap = "none"
    /\ fetches >= 3 => gap = "poll"

\* the loop has fetched twice
C9_Witness == fetches = 3 /\ wpc = "sleep"

\* C10: when every call returns and every sleep ends, every run ends, with
\* one of the four outcomes, also when every fetch finds the check running;
\* while the run is in the loop, every fetch so far found the check running,
\* and a fetch of the loop starts before the timeout has elapsed.
C10_Terminates ==
    /\ <>(wpc = "done" /\ outcome \in {"nothing", "completed", "timed_out", "error"})
    /\ [](wpc \in {"loop", "poll", "sleep"} => outcome = "running" /\ allRunning)
    /\ [](wpc = "poll" => Elapsed < timeout)

\* the default timeout ran out on a check that never stopped running
C10_Witness ==
    /\ wpc = "done"
    /\ outcome = "timed_out"
    /\ timeout = DEFAULT_TIMEOUT
    /\ fetches >= 40

\* --------------------------------------------------- review_comments.py claims

\* what the last successful run wrote, and the lists it was written from
ReportOf(f) == f.text[Len(f.text)]
FetchedReviews == result.data.repository.pullRequest.reviews.nodes
FetchedThreads == result.data.repository.pullRequest.reviewThreads.nodes
ListedReviews ==
    IF ReportOf(file).kind = "report" THEN ReportOf(file).reviews ELSE <<>>
ListedThreads ==
    IF ReportOf(file).kind = "report" THEN ReportOf(file).threads ELSE <<>>

\* the current user has left a thumbs up on review r
ThumbsUpByCurrentUser(r) ==
    \E i \in 1..Len(r.reactions.nodes) :
       /\ r.reactions.nodes[i].user.login = current_user
       /\ r.reactions.nodes[i].content = "THUMBS_UP"

\* C5: the report of a successful run lists a review only if its body is
\* not empty once the comment markup is stripped and the current user has
\* left no thumbs up on it; a bot review with such a body and no thumbs up of
\* the current user is listed, whoever else reacted; a thread is listed only
\* if it is unresolved and has a comment.
C5_ReportFilter ==
    (gpc = "done" /\ gOutcome = "ok") =>
        /\ \A i \in 1..Len(ListedReviews) :
              \E k \in 1..Len(FetchedReviews) :
                 /\ FetchedReviews[k].id = ListedReviews[i].id
                 /\ strip_html_comments(FetchedReviews[k].body) /= <<>>
                 /\ ListedReviews[i].body = strip_html_comments(FetchedReviews[k].body)
                 /\ ~ThumbsUpByCurrentUser(FetchedReviews[k])
        /\ \A k \in 1..Len(FetchedReviews) :
              ( /\ FetchedReviews[k].author.login = BotLogin
                /\ strip_html_comments(FetchedReviews[k].body) /= <<>>
                /\ ~ThumbsUpByCurrentUser(FetchedReviews[k]) )
              => \E i \in 1..Len(ListedReviews) :
                    ListedReviews[i].id = FetchedReviews[k].id
        /\ \A i \in 1..Len(ListedThreads) :
              \E k \in 1..Len(FetchedThreads) :
                 /\ FetchedThreads[k].id = ListedThreads[i].id
                 /\ FetchedThreads[k].isResolved = FALSE
                 /\ Len(FetchedThreads[k].comments.nodes) >= 1

\* I acknowledged one review and someone else the other: only the other is
\* listed
C5_Witness ==
    /\ gpc = "done"
    /\ gOutcome = "ok"
    /\ current_user = Me
    /\ Len(FetchedReviews) = 2
    /\ FetchedReviews[1].id = "R3"
    /\ FetchedReviews[2].id = "R4"
    /\ Len(ListedReviews) = 1
    /\ ListedReviews[1].id = "R4"

\* C6: a run that ends in a fatal error leaves the output file as it was
\* before the run, writes nothing, and exits non-zero.
C6_NoPartialReport ==
    (gpc = "done" /\ gOutcome = "error") =>
        /\ file = before
        /\ writes = 0
        /\ gExit /= 0

\* building the report raised after .reviews was made, and an older report
\* is in the file
C6_Witness ==
    /\ gpc = "done"
    /\ gOutcome = "error"
    /\ "data" \in DOMAIN result
    /\ Len(FetchedThreads) = 1
    /\ FetchedThreads[1].id = "T5"
    /\ before = StaleFile
    /\ file = StaleFile

\* C7: a successful run writes the file once, and the file then holds that
\* one document and nothing of what it held before; every successful run on
\* the same upstream state leaves the file as the first one left it.
C7_OverwriteIdempotent ==
    (gpc = "done" /\ gOutcome = "ok") =>
        /\ writes = 1
        /\ file.exists
        /\ Len(file.text) = 1
        /\ ReportOf(file).pr = Str(get_pr_number(upstream.prText).val)
        /\ firstFile = <<file>>

\* the second run in a row succeeded, on the file the first one wrote
C7_Witness ==
    /\ gpc = "done"
    /\ gOutcome = "ok"
    /\ run = 2
    /\ before = file
    /\ ReportOf(file).kind = "report"

\* ------------------------------------------------------------ parse_args claim

TimeoutFlags == { i \in 1..Len(argv) : StartsWith(argv[i], TimeoutFlag) }
LastFlagValue ==
    LET i == CHOOSE k \in TimeoutFlags : \A j \in TimeoutFlags : j <= k
    IN SubSeq(argv[i], Len(TimeoutFlag) + 1, Len(argv[i]))

\* C8: parse_args yields a positive timeout: 600 when there is no --timeout=
\* flag, the value of the flag when that is a positive integer, and 600 with
\* a warning printed when the value is no integer, zero or negative.
C8_ParseArgs ==
    apc = "done" =>
        /\ timeout > 0
        /\ IF TimeoutFlags = {} THEN timeout = DEFAULT_TIMEOUT
           ELSE IF IntOf(LastFlagValue).ok /\ IntOf(LastFlagValue).val > 0
                THEN timeout = IntOf(LastFlagValue).val
                ELSE timeout = DEFAULT_TIMEOUT /\ warnings >= 1

====
